---- MODULE Spec2Model ----
(***************************************************************************)
(* A model of goli/data/dataset.py: SingleTaskDataset (one task's parallel *)
(* arrays), MultitaskDataset (the merge of a mapping of single-task        *)
(* datasets into one collection indexed by unique molecular id) and        *)
(* FakeDataset (one merged molecule handed out a chosen number of times).  *)
(*                                                                         *)
(* Python values are modelled as follows.                                  *)
(*   - an optional argument or attribute is None or Some(v);               *)
(*   - a list is a sequence; Python index i is position i + 1;             *)
(*   - an object is a record with the set attrs of the attribute names     *)
(*     assigned so far (reading any other attribute is an AttributeError)  *)
(*     and one field per attribute;                                        *)
(*   - a dict is a function whose DOMAIN is its set of keys; the mapping   *)
(*     of task names to datasets, whose insertion order the code iterates, *)
(*     is a sequence of [task, ds] items with distinct task names;         *)
(*   - a call yields [status, ...] where status is "ok" or the name of the *)
(*     exception that ends it.                                             *)
(***************************************************************************)
EXTENDS Integers, Sequences, FiniteSets, TLC

VARIABLES
    datasets,   \* the Dict[str, SingleTaskDataset] handed to MultitaskDataset
    mtd,        \* the MultitaskDataset: not yet constructed, failed, or the object
    cache,      \* the lru_cache of MultitaskDataset.__getitem__
    ret,        \* what the last call on the MultitaskDataset returned or raised
    call,       \* the arguments of the last SingleTaskDataset(...) call
    st,         \* the SingleTaskDataset that call produced, or its failure
    sret,       \* what the last call on that SingleTaskDataset returned
    fake,       \* the FakeDataset (not yet constructed, failed, or the object) and the heap
    held,       \* a record a caller got from the FakeDataset and changed
    fret        \* what the last call on the FakeDataset returned or raised

vars == <<datasets, mtd, cache, ret, call, st, sret, fake, held, fret>>

----------------------------------------------------------------------------
(* Bounds and input domains                                                *)

\* The most rows all the tasks of one mapping hold together.
MaxRows == 2

\* The longest sequence handed to SingleTaskDataset as one argument.
MaxArgLen == 2

\* Task names, the keys of the mapping.
Tasks == {"A", "B"}

\* Raw inputs (smiles strings), as numbers.
Smiles == {1, 2, 3}

\* Precomputed unique ids a dataset may supply. Ids stand for strings; their
\* numeric order stands for the order numpy sorts the strings in.
UniqueIds == {1, 2}

None == [some |-> FALSE, val |-> <<>>]

Some(v) == [some |-> TRUE, val |-> v]

\* The i-th label of a task: a row of i numbers, so that the labels of one
\* task differ in shape as well as in value (an array of dtype object or a
\* list holds such rows; the merge never inspects a label).
LabelAt(i) == [j \in 1..i |-> 10 * i]

\* The i-th feature graph of a task: an object of its own, with node and edge
\* counts.
FeatureAt(task, i) == [owner |-> task, row |-> i, num_nodes |-> i + 1, num_edges |-> i]

\* Per-row index and weight values.
IndexAt(i) == i

WeightAt(i) == 100 + i

----------------------------------------------------------------------------
(* SingleTaskDataset                                                       *)

Fields == {"features", "labels", "smiles", "indices", "weights", "unique_ids"}

\* The length checks with the one on unique_ids forgotten.
CheckOrderNoUniqueIds == <<"features", "smiles", "indices", "weights">>

\* The length checks of the constructor, in the order the code makes them:
\* the first supplied argument whose length differs from len(labels).
CheckOrder == <<"features", "smiles", "indices", "weights", "unique_ids">>

Mismatch(args, f) == args[f].some /\ Len(args[f].val) # Len(args.labels.val)

FirstMismatch(args) ==
    LET bad == {k \in 1..Len(CheckOrder) : Mismatch(args, CheckOrder[k])}
    IN  IF bad = {} THEN 0 ELSE CHOOSE k \in bad : \A j \in bad : k <= j

\* manager = Manager(); manager.list(smiles): a new Manager process is started
\* and holds the list, which is reached by proxy. The manager is named by the
\* method that started it, which tells the manager of a dataset's constructor
\* from the manager a restore of that dataset starts.
ManagerList(manager, s) == [proxy |-> TRUE, manager |-> manager, items |-> s]

\* np.array(indices)
NpArray(s) == [ndarray |-> TRUE, items |-> s]

\* The object with no attribute assigned.
NewObject == [attrs |-> {}]

\* SingleTaskDataset.__init__: every length check precedes every assignment.
SingleTaskInit(args) ==
    LET k == FirstMismatch(args)
    IN  IF k # 0
        THEN [status |-> "AssertionError",
              field  |-> CheckOrder[k],
              got    |-> Len(args[CheckOrder[k]].val),
              numel  |-> Len(args.labels.val),
              obj    |-> NewObject]
        ELSE [status |-> "ok",
              field  |-> "",
              got    |-> 0,
              numel  |-> Len(args.labels.val),
              obj    |-> [attrs      |-> Fields,
                          labels     |-> args.labels,
                          smiles     |-> IF args.smiles.some
                                         THEN Some(ManagerList("__init__", args.smiles.val))
                                         ELSE None,
                          features   |-> args.features,
                          indices    |-> IF args.indices.some
                                         THEN Some(NpArray(args.indices.val))
                                         ELSE None,
                          weights    |-> args.weights,
                          unique_ids |-> args.unique_ids]]

\* The dataset after __len__, __getitem__ or __getstate__ ran on it: each
\* reads the attributes, __getstate__ copies the smiles into a new list, and
\* none assigns an attribute or an element of self.
SingleTaskAfterRead(ds) == ds

\* SingleTaskDataset.__len__
SingleTaskLen(ds) == Len(ds.labels.val)

\* The value of one field of a dataset at Python index idx.
FieldAt(ds, f, idx) ==
    IF f \in {"smiles", "indices"} THEN ds[f].val.items[idx + 1] ELSE ds[f].val[idx + 1]

\* __getitem__ written without the "is not None" tests: every field is a key,
\* and a field that was not supplied has the value None.
SingleTaskGetItemAllKeys(ds, idx) ==
    IF idx >= SingleTaskLen(ds)
    THEN [status |-> "IndexError", datum |-> <<>>]
    ELSE [status |-> "ok",
          datum  |-> [f \in Fields |-> IF ds[f].some THEN FieldAt(ds, f, idx) ELSE None]]

\* SingleTaskDataset.__getitem__: one key per attribute that is not None.
SingleTaskGetItem(ds, idx) ==
    LET keys == {f \in Fields : ds[f].some}
    IN  IF idx >= SingleTaskLen(ds)
        THEN [status |-> "IndexError", datum |-> <<>>]
        ELSE [status |-> "ok", datum |-> [f \in keys |-> FieldAt(ds, f, idx)]]

\* A state that leaves the smiles behind, as one that cannot send a manager
\* list to another process might.
GetStateWithoutSmiles(ds) ==
    [labels     |-> ds.labels,
     smiles     |-> None,
     features   |-> ds.features,
     indices    |-> ds.indices,
     weights    |-> ds.weights,
     unique_ids |-> ds.unique_ids]

\* SingleTaskDataset.__getstate__: the attributes as a dict, the smiles copied
\* out of the manager into a plain list.
GetState(ds) ==
    [labels     |-> ds.labels,
     smiles     |-> IF ds.smiles.some THEN Some(ds.smiles.val.items) ELSE None,
     features   |-> ds.features,
     indices    |-> ds.indices,
     weights    |-> ds.weights,
     unique_ids |-> ds.unique_ids]

\* SingleTaskDataset.__setstate__: a new Manager is started for the smiles of
\* the state, and the state becomes the attributes of the object.
SetState(state) ==
    [attrs |-> DOMAIN state] @@
    [state EXCEPT !.smiles = IF state.smiles.some
                             THEN Some(ManagerList("__setstate__", state.smiles.val))
                             ELSE None]

----------------------------------------------------------------------------
(* MultitaskDataset.merge and its helpers                                  *)

\* goli.data.data_utils.smiles_to_unique_mol_ids, for one smiles: a pure map
\* from the raw input to the id of its molecule. Smiles 2 and 3 are two
\* spellings of molecule 1, and smiles 1 is molecule 2, so that neither the
\* order nor the number of the smiles is that of the ids.
MolIdOf(s) == IF s = 1 THEN 2 ELSE 1

\* smiles_to_unique_mol_ids on a list: one id per smiles, in the input order.
SmilesToUniqueMolIds(ds_smiles) == [i \in 1..Len(ds_smiles) |-> MolIdOf(ds_smiles[i])]

\* The rows of one dataset with smiles_to_unique_mol_ids called for every
\* dataset, the unique ids a dataset supplies left unread.
DatasetRowsAlwaysResolve(task, ds) ==
    LET n           == SingleTaskLen(ds)
        ds_smiles   == [i \in 1..n |-> SingleTaskGetItem(ds, i - 1).datum["smiles"]]
        ds_labels   == [i \in 1..n |-> SingleTaskGetItem(ds, i - 1).datum["labels"]]
        ds_features == IF "features" \in DOMAIN SingleTaskGetItem(ds, 0).datum
                       THEN [i \in 1..n |-> SingleTaskGetItem(ds, i - 1).datum["features"]]
                       ELSE <<>>
    IN  [smiles   |-> ds_smiles,
         labels   |-> ds_labels,
         mol_ids  |-> SmilesToUniqueMolIds(ds_smiles),
         features |-> ds_features,
         tasks    |-> [i \in 1..n |-> task]]

\* The rows one dataset adds to the concatenated lists (the body of the loop
\* of _get_all_lists_ids for a dataset with at least one row).
DatasetRows(task, ds) ==
    LET n           == SingleTaskLen(ds)
        ds_smiles   == [i \in 1..n |-> SingleTaskGetItem(ds, i - 1).datum["smiles"]]
        ds_labels   == [i \in 1..n |-> SingleTaskGetItem(ds, i - 1).datum["labels"]]
        ds_mol_ids  == IF "unique_ids" \in DOMAIN SingleTaskGetItem(ds, 0).datum
                       THEN [i \in 1..n |-> SingleTaskGetItem(ds, i - 1).datum["unique_ids"]]
                       ELSE SmilesToUniqueMolIds(ds_smiles)
        ds_features == IF "features" \in DOMAIN SingleTaskGetItem(ds, 0).datum
                       THEN [i \in 1..n |-> SingleTaskGetItem(ds, i - 1).datum["features"]]
                       ELSE <<>>
    IN  [smiles   |-> ds_smiles,
         labels   |-> ds_labels,
         mol_ids  |-> ds_mol_ids,
         features |-> ds_features,
         tasks    |-> [i \in 1..n |-> task]]

EmptyLists ==
    [status |-> "ok", smiles |-> <<>>, features |-> <<>>, labels |-> <<>>,
     mol_ids |-> <<>>, tasks |-> <<>>]

\* MultitaskDataset._get_all_lists_ids: the datasets from the k-th on, added to
\* the lists acc. A dataset of no row is skipped; ds[i]["smiles"] of a dataset
\* built without smiles is a KeyError.
RECURSIVE GetAllListsFrom(_, _, _)
GetAllListsFrom(dsets, k, acc) ==
    IF k > Len(dsets) THEN acc
    ELSE LET task == dsets[k].task
             ds   == dsets[k].ds
         IN  IF SingleTaskLen(ds) = 0 THEN GetAllListsFrom(dsets, k + 1, acc)
             ELSE IF ~ds.smiles.some THEN [acc EXCEPT !.status = "KeyError"]
             ELSE LET rows == DatasetRows(task, ds)
                  IN  GetAllListsFrom(dsets, k + 1,
                          [status   |-> "ok",
                           smiles   |-> acc.smiles \o rows.smiles,
                           features |-> acc.features \o rows.features,
                           labels   |-> acc.labels \o rows.labels,
                           mol_ids  |-> acc.mol_ids \o rows.mol_ids,
                           tasks    |-> acc.tasks \o rows.tasks])

GetAllListsIds(dsets) == GetAllListsFrom(dsets, 1, EmptyLists)

\* The ids taken as they come, with no deduplication.
NpUniqueKeepAll(all_mol_ids) == all_mol_ids

\* The distinct values in the order of their first occurrence (what
\* dict.fromkeys or pandas.unique give) instead of sorted.
NpUniqueFirstSeen(all_mol_ids) ==
    LET firsts == {r \in 1..Len(all_mol_ids) :
                      \A q \in 1..(r - 1) : all_mol_ids[q] # all_mol_ids[r]}
    IN  [p \in 1..Cardinality(firsts) |->
            all_mol_ids[CHOOSE r \in firsts : Cardinality({q \in firsts : q < r}) = p - 1]]

\* np.unique(all_mol_ids): the distinct values in increasing order.
NpUnique(all_mol_ids) ==
    LET S == {all_mol_ids[r] : r \in 1..Len(all_mol_ids)}
    IN  [p \in 1..Cardinality(S) |->
            CHOOSE x \in S : Cardinality({y \in S : y < x}) = p - 1]

\* An inverse that sends every element to the first position.
NpInverseFirst(uniq, all_mol_ids) == [r \in 1..Len(all_mol_ids) |-> 1]

\* return_inverse=True: for each element, the position of its value in the
\* unique array (positions count from 1 here, from 0 in numpy).
NpInverse(uniq, all_mol_ids) ==
    [r \in 1..Len(all_mol_ids) |-> CHOOSE p \in 1..Len(uniq) : uniq[p] = all_mol_ids[r]]

\* MultitaskDataset._get_inv_of_mol_ids
GetInvOfMolIds(all_mol_ids) ==
    LET mol_ids == NpUnique(all_mol_ids)
    IN  [mol_ids |-> mol_ids, inv |-> NpInverse(mol_ids, all_mol_ids)]

\* d[k] = v on a dict.
DictSet(d, k, v) == [x \in (DOMAIN d) \cup {k} |-> IF x = k THEN v ELSE d[x]]

EmptyDict == <<>>

\* The smiles stored with a test for membership: a smiles that the position
\* already holds is not appended again.
RECURSIVE StoreSmilesDistinct(_, _, _, _)
StoreSmilesDistinct(inv, all_smiles, r, smiles) ==
    IF r > Len(inv) THEN smiles
    ELSE StoreSmilesDistinct(inv, all_smiles, r + 1,
             [smiles EXCEPT ![inv[r]] =
                 IF \E q \in 1..Len(@) : @[q] = all_smiles[r] THEN @
                 ELSE Append(@, all_smiles[r])])

\* The loop that stores the smiles, from row r on.
RECURSIVE StoreSmiles(_, _, _, _)
StoreSmiles(inv, all_smiles, r, smiles) ==
    IF r > Len(inv) THEN smiles
    ELSE StoreSmiles(inv, all_smiles, r + 1,
                     [smiles EXCEPT ![inv[r]] = Append(@, all_smiles[r])])

\* The labels stored into a list built as [{}] * n, whose positions are all
\* one dict: every assignment shows at every position.
RECURSIVE StoreLabelsShared(_, _, _, _)
StoreLabelsShared(inv, all_lists, r, labels) ==
    IF r > Len(inv) THEN labels
    ELSE StoreLabelsShared(inv, all_lists, r + 1,
             [p \in 1..Len(labels) |->
                 DictSet(labels[p], all_lists.tasks[r], all_lists.labels[r])])

\* The labels stored with labels[unique_idx].setdefault(task, label): the
\* first row of a task with an id keeps its label.
RECURSIVE StoreLabelsFirst(_, _, _, _)
StoreLabelsFirst(inv, all_lists, r, labels) ==
    IF r > Len(inv) THEN labels
    ELSE StoreLabelsFirst(inv, all_lists, r + 1,
             [labels EXCEPT ![inv[r]] =
                 IF all_lists.tasks[r] \in DOMAIN @ THEN @
                 ELSE DictSet(@, all_lists.tasks[r], all_lists.labels[r])])

\* The loop that stores the labels, from row r on: labels[unique_idx][task] = label.
RECURSIVE StoreLabels(_, _, _, _)
StoreLabels(inv, all_lists, r, labels) ==
    IF r > Len(inv) THEN labels
    ELSE StoreLabels(inv, all_lists, r + 1,
                     [labels EXCEPT ![inv[r]] =
                         DictSet(@, all_lists.tasks[r], all_lists.labels[r])])

\* The features stored only into a position no earlier row has filled: the
\* first row with an id keeps its feature.
RECURSIVE StoreFeaturesFirst(_, _, _, _)
StoreFeaturesFirst(inv, all_features, r, features) ==
    IF r > Len(inv) THEN [status |-> "ok", features |-> features]
    ELSE IF r > Len(all_features) THEN [status |-> "IndexError", features |-> features]
    ELSE StoreFeaturesFirst(inv, all_features, r + 1,
             IF \E q \in 1..(r - 1) : inv[q] = inv[r] THEN features
             ELSE [features EXCEPT ![inv[r]] = all_features[r]])

\* The loop that stores the features, from row r on. It runs over every row
\* and reads all_lists["features"][all_idx], which is an IndexError past the
\* end of the features list.
RECURSIVE StoreFeatures(_, _, _, _)
StoreFeatures(inv, all_features, r, features) ==
    IF r > Len(inv) THEN [status |-> "ok", features |-> features]
    ELSE IF r > Len(all_features) THEN [status |-> "IndexError", features |-> features]
    ELSE StoreFeatures(inv, all_features, r + 1,
                       [features EXCEPT ![inv[r]] = all_features[r]])

\* The body of merge on the concatenated lists all_lists and the pair u that
\* self._get_inv_of_mol_ids gave. arity is the length of the tuple returned:
\* 4 with features, 3 without.
MergeLists(all_lists, u) ==
    LET n         == Len(u.mol_ids)
        smiles    == StoreSmiles(u.inv, all_lists.smiles, 1, [p \in 1..n |-> <<>>])
        labels    == StoreLabels(u.inv, all_lists, 1, [p \in 1..n |-> EmptyDict])
        stored    == StoreFeatures(u.inv, all_lists.features, 1, [p \in 1..n |-> -1])
        failed(e) == [status |-> e, arity |-> 0, mol_ids |-> <<>>, smiles |-> <<>>,
                      labels |-> <<>>, features |-> <<>>]
    IN  IF all_lists.status # "ok" THEN failed(all_lists.status)
        ELSE IF Len(all_lists.features) > 0
        THEN IF stored.status # "ok" THEN failed(stored.status)
             ELSE [status |-> "ok", arity |-> 4, mol_ids |-> u.mol_ids,
                   smiles |-> smiles, labels |-> labels, features |-> stored.features]
        ELSE [status |-> "ok", arity |-> 3, mol_ids |-> u.mol_ids,
              smiles |-> smiles, labels |-> labels, features |-> <<>>]

\* MultitaskDataset.merge
Merge(dsets) ==
    LET all_lists == GetAllListsIds(dsets)
    IN  MergeLists(all_lists, GetInvOfMolIds(all_lists.mol_ids))

----------------------------------------------------------------------------
(* MultitaskDataset                                                        *)

\* torch.as_tensor(label).size() of a label that is a row of numbers: the
\* shape of one dimension, the number of its entries.
LabelSize(label) == <<Len(label)>>

\* The size of the last label of each dataset with a row, not of the first.
RECURSIVE SetLabelSizeFromLast(_, _, _)
SetLabelSizeFromLast(dsets, k, task_labels_size) ==
    IF k > Len(dsets) THEN task_labels_size
    ELSE IF SingleTaskLen(dsets[k].ds) = 0
         THEN SetLabelSizeFromLast(dsets, k + 1, task_labels_size)
         ELSE SetLabelSizeFromLast(dsets, k + 1,
                  DictSet(task_labels_size, dsets[k].task,
                          LabelSize(SingleTaskGetItem(dsets[k].ds,
                              SingleTaskLen(dsets[k].ds) - 1).datum["labels"])))

\* MultitaskDataset.set_label_size_dict: each dataset with a row gives the
\* size of its first label.
RECURSIVE SetLabelSizeFrom(_, _, _)
SetLabelSizeFrom(dsets, k, task_labels_size) ==
    IF k > Len(dsets) THEN task_labels_size
    ELSE IF SingleTaskLen(dsets[k].ds) = 0
         THEN SetLabelSizeFrom(dsets, k + 1, task_labels_size)
         ELSE SetLabelSizeFrom(dsets, k + 1,
                  DictSet(task_labels_size, dsets[k].task,
                          LabelSize(SingleTaskGetItem(dsets[k].ds, 0).datum["labels"])))

SetLabelSizeDict(dsets) == SetLabelSizeFrom(dsets, 1, EmptyDict)

\* A MultitaskDataset no attribute of which is assigned.
NoDataset ==
    [attrs |-> {}, mol_ids |-> None, smiles |-> None, labels |-> NpArray(<<>>),
     features |-> <<>>, labels_size |-> EmptyDict]

\* MultitaskDataset.__init__. The constructor unpacks merge's tuple into four
\* names when the first dataset of the mapping has a row and that row has
\* features, into three otherwise; self.features is assigned in the first case
\* only.
MultitaskInit(dsets, save_smiles_and_ids) ==
    LET failed(e) == [status |-> e, save_smiles_and_ids |-> save_smiles_and_ids,
                      obj |-> NoDataset]
    IN  IF Len(dsets) = 0 THEN failed("StopIteration")
        ELSE
        LET first == dsets[1].ds
            four  == /\ SingleTaskLen(first) > 0
                     /\ "features" \in DOMAIN SingleTaskGetItem(first, 0).datum
            m     == Merge(dsets)
        IN  IF m.status # "ok" THEN failed(m.status)
            ELSE IF m.arity # (IF four THEN 4 ELSE 3) THEN failed("ValueError")
            ELSE [status |-> "ok",
                  save_smiles_and_ids |-> save_smiles_and_ids,
                  obj |-> [attrs       |-> {"mol_ids", "smiles", "labels", "labels_size"}
                                           \cup (IF four THEN {"features"} ELSE {}),
                           mol_ids     |-> IF save_smiles_and_ids THEN Some(m.mol_ids)
                                           ELSE None,
                           smiles      |-> IF save_smiles_and_ids THEN Some(m.smiles)
                                           ELSE None,
                           labels      |-> NpArray(m.labels),
                           features    |-> m.features,
                           labels_size |-> SetLabelSizeDict(dsets)]]

\* The backend names and batch sizes a caller passes: the defaults of
\* __init__ and one value of each that no parallel backend takes.
Backends == {"loky", "nonsense"}

BatchSizes == {1000, 0}

\* smiles_to_unique_mol_ids takes this backend and this batch size.
ValidConfig(backend, featurization_batch_size) ==
    backend = "loky" /\ featurization_batch_size > 0

\* What smiles_to_unique_mol_ids raises when it is called with a backend or a
\* batch size it does not take.
ResolverError == "UnsupportedConfigurationError"

\* MultitaskDataset.__init__ with backend and featurization_batch_size given.
\* The two are stored as they come and read again only by
\* _get_all_lists_ids, which hands them to smiles_to_unique_mol_ids for a
\* dataset with a row and without unique ids; a dataset before it that has
\* rows and no smiles ends the merge first.
MultitaskInitWith(dsets, save_smiles_and_ids, backend, featurization_batch_size) ==
    LET stops == {k \in 1..Len(dsets) :
                     /\ SingleTaskLen(dsets[k].ds) > 0
                     /\ ~dsets[k].ds.smiles.some \/ ~dsets[k].ds.unique_ids.some}
        first == CHOOSE x \in stops : \A y \in stops : x <= y
        given == [backend |-> backend, featurization_batch_size |-> featurization_batch_size]
        r     == MultitaskInit(dsets, save_smiles_and_ids)
        stored == {"n_jobs", "backend", "featurization_batch_size", "progress", "about"}
    IN  IF /\ ~ValidConfig(backend, featurization_batch_size)
           /\ stops # {}
           /\ dsets[first].ds.smiles.some
        THEN given @@ [r EXCEPT !.status = ResolverError, !.obj = NoDataset]
        ELSE given @@ [r EXCEPT !.obj = given @@ [r.obj EXCEPT !.attrs = @ \cup stored]]

\* A read that takes what it returns out of the object: self.features.pop(0)
\* in the place of self.features[idx].
MultitaskAfterReadPopped(self) ==
    [self EXCEPT !.features = IF @ = <<>> THEN @ ELSE Tail(@)]

\* The object after __len__, __getitem__, a statistic or __repr__ ran on it.
\* Each of them reads self.labels, self.features, self.smiles, self.mol_ids
\* and self.about, builds its result in local names and assigns no attribute
\* and no element of self.
MultitaskAfterRead(self) == self

\* MultitaskDataset.__len__
MultitaskLen(self) == Len(self.labels.items)

\* The body of __getitem__ without the "is not None" tests: the record has
\* the keys "mol_ids" and "smiles" whether or not they were saved.
MultitaskGetItemBodyAllKeys(self, idx) ==
    LET at(f) == CASE f = "mol_ids"  -> IF self.mol_ids.some
                                        THEN Some(self.mol_ids.val[idx + 1]) ELSE None
                   [] f = "smiles"   -> IF self.smiles.some
                                        THEN Some(self.smiles.val[idx + 1]) ELSE None
                   [] f = "labels"   -> self.labels.items[idx + 1]
                   [] f = "features" -> self.features[idx + 1]
    IN  IF idx >= MultitaskLen(self)
        THEN [status |-> "IndexError", datum |-> <<>>]
        ELSE IF "features" \notin self.attrs
        THEN [status |-> "AttributeError", datum |-> <<>>]
        ELSE [status |-> "ok",
              datum  |-> [f \in {"mol_ids", "smiles", "labels", "features"} |-> at(f)]]

\* The body of MultitaskDataset.__getitem__ (what runs on a cache miss).
MultitaskGetItemBody(self, idx) ==
    LET keys == (IF self.mol_ids.some THEN {"mol_ids"} ELSE {})
                \cup (IF self.smiles.some THEN {"smiles"} ELSE {})
                \cup {"labels"} \cup {"features"}
        at(f) == CASE f = "mol_ids"  -> self.mol_ids.val[idx + 1]
                   [] f = "smiles"   -> self.smiles.val[idx + 1]
                   [] f = "labels"   -> self.labels.items[idx + 1]
                   [] f = "features" -> self.features[idx + 1]
    IN  IF idx >= MultitaskLen(self)
        THEN [status |-> "IndexError", datum |-> <<>>]
        ELSE IF "features" \notin self.attrs
        THEN [status |-> "AttributeError", datum |-> <<>>]
        ELSE [status |-> "ok", datum |-> [f \in keys |-> at(f)]]

\* @lru_cache(maxsize=16) on __getitem__
MaxSize == 16

\* The position of idx among the cached calls, 0 when it is not cached.
CachePos(c, idx) ==
    IF \E k \in 1..Len(c) : c[k].idx = idx
    THEN CHOOSE k \in 1..Len(c) : c[k].idx = idx
    ELSE 0

\* c without its k-th entry.
CacheDrop(c, k) == SubSeq(c, 1, k - 1) \o SubSeq(c, k + 1, Len(c))

\* MultitaskDataset.__getitem__ under a cache that never lets an entry go.
MultitaskGetItemNoEvict(self, c, idx) ==
    LET k == CachePos(c, idx)
        r == MultitaskGetItemBody(self, idx)
    IN  IF k # 0
        THEN [status |-> "ok", datum |-> c[k].datum, hit |-> TRUE,
              cache |-> Append(CacheDrop(c, k), c[k])]
        ELSE IF r.status # "ok"
        THEN [status |-> r.status, datum |-> r.datum, hit |-> FALSE, cache |-> c]
        ELSE [status |-> "ok", datum |-> r.datum, hit |-> FALSE,
              cache |-> Append(c, [idx |-> idx, datum |-> r.datum])]

\* MultitaskDataset.__getitem__ under a cache that lets entries go in the
\* order they came in: a hit leaves the entry where it is.
MultitaskGetItemFifo(self, c, idx) ==
    LET k == CachePos(c, idx)
        r == MultitaskGetItemBody(self, idx)
    IN  IF k # 0
        THEN [status |-> "ok", datum |-> c[k].datum, hit |-> TRUE, cache |-> c]
        ELSE IF r.status # "ok"
        THEN [status |-> r.status, datum |-> r.datum, hit |-> FALSE, cache |-> c]
        ELSE [status |-> "ok", datum |-> r.datum, hit |-> FALSE,
              cache |-> LET full == Append(c, [idx |-> idx, datum |-> r.datum])
                        IN  IF Len(full) > MaxSize THEN Tail(full) ELSE full]

\* A cache that keeps what a call ended with, a raised exception included:
\* the failing index takes a place, and the place of another when full.
MultitaskGetItemCachesFailure(self, c, idx) ==
    LET k == CachePos(c, idx)
        r == MultitaskGetItemBody(self, idx)
    IN  IF k # 0
        THEN [status |-> "ok", datum |-> c[k].datum, hit |-> TRUE,
              cache |-> Append(CacheDrop(c, k), c[k])]
        ELSE [status |-> r.status, datum |-> r.datum, hit |-> FALSE,
              cache |-> LET full == Append(c, [idx |-> idx, datum |-> r.datum])
                        IN  IF Len(full) > MaxSize THEN Tail(full) ELSE full]

\* MultitaskDataset.__getitem__ under lru_cache, on the cache c (least
\* recently used entry first): a hit returns the cached record and makes the
\* entry the most recent; a miss runs the body, and a body that returns is
\* cached, the least recently used entry leaving a full cache; a body that
\* raises caches nothing.
MultitaskGetItem(self, c, idx) ==
    LET k == CachePos(c, idx)
        r == MultitaskGetItemBody(self, idx)
    IN  IF k # 0
        THEN [status |-> "ok", datum |-> c[k].datum, hit |-> TRUE,
              cache |-> Append(CacheDrop(c, k), c[k])]
        ELSE IF r.status # "ok"
        THEN [status |-> r.status, datum |-> r.datum, hit |-> FALSE, cache |-> c]
        ELSE [status |-> "ok", datum |-> r.datum, hit |-> FALSE,
              cache |-> LET full == Append(c, [idx |-> idx, datum |-> r.datum])
                        IN  IF Len(full) > MaxSize THEN Tail(full) ELSE full]

RECURSIVE SeqSum(_)
SeqSum(s) == IF s = <<>> THEN 0 ELSE Head(s) + SeqSum(Tail(s))

\* max(...) and min(...) of a list of numbers: a ValueError on an empty list.
ListMax(s) ==
    IF s = <<>> THEN [status |-> "ValueError", value |-> 0]
    ELSE [status |-> "ok",
          value  |-> CHOOSE x \in {s[i] : i \in 1..Len(s)} : \A i \in 1..Len(s) : s[i] <= x]

ListMin(s) ==
    IF s = <<>> THEN [status |-> "ValueError", value |-> 0]
    ELSE [status |-> "ok",
          value  |-> CHOOSE x \in {s[i] : i \in 1..Len(s)} : \A i \in 1..Len(s) : x <= s[i]]

\* np.std(...): nan (with a warning) on an empty list, else the square root of
\* the variance, kept as the fraction (n * sum(x^2) - sum(x)^2) / n^2.
NpStd(s) ==
    IF s = <<>> THEN [status |-> "ok", value |-> [nan |-> TRUE]]
    ELSE [status |-> "ok",
          value  |-> [sqrt_num |-> Len(s) * SeqSum([i \in 1..Len(s) |-> s[i] * s[i]])
                                   - SeqSum(s) * SeqSum(s),
                      sqrt_den |-> Len(s) * Len(s)]]

\* a / b on numbers: a ZeroDivisionError when b is 0, else the fraction.
TrueDiv(a, b) ==
    IF b = 0 THEN [status |-> "ZeroDivisionError", value |-> 0]
    ELSE [status |-> "ok", value |-> [num |-> a, den |-> b]]

StatNames ==
    {"num_nodes_total", "max_num_nodes_per_graph", "min_num_nodes_per_graph",
     "std_num_nodes_per_graph", "mean_num_nodes_per_graph",
     "num_edges_total", "max_num_edges_per_graph", "min_num_edges_per_graph",
     "std_num_edges_per_graph", "mean_num_edges_per_graph"}

\* The structural statistics properties of MultitaskDataset. Each reads
\* self.features first, an AttributeError on a dataset built without it.
Statistic(self, name) ==
    LET nodes == [p \in 1..Len(self.features) |-> self.features[p].num_nodes]
        edges == [p \in 1..Len(self.features) |-> self.features[p].num_edges]
    IN  IF "features" \notin self.attrs THEN [status |-> "AttributeError", value |-> 0]
        ELSE CASE name = "num_nodes_total"          -> [status |-> "ok", value |-> SeqSum(nodes)]
               [] name = "max_num_nodes_per_graph"  -> ListMax(nodes)
               [] name = "min_num_nodes_per_graph"  -> ListMin(nodes)
               [] name = "std_num_nodes_per_graph"  -> NpStd(nodes)
               [] name = "mean_num_nodes_per_graph" -> TrueDiv(SeqSum(nodes), MultitaskLen(self))
               [] name = "num_edges_total"          -> [status |-> "ok", value |-> SeqSum(edges)]
               [] name = "max_num_edges_per_graph"  -> ListMax(edges)
               [] name = "min_num_edges_per_graph"  -> ListMin(edges)
               [] name = "std_num_edges_per_graph"  -> NpStd(edges)
               [] name = "mean_num_edges_per_graph" -> TrueDiv(SeqSum(edges), MultitaskLen(self))

\* MultitaskDataset.__repr__: on an empty dataset the summary names the number
\* of graphs only; otherwise it reads every statistic, and the first that
\* raises ends it.
Repr(self) ==
    IF MultitaskLen(self) = 0
    THEN [status |-> "ok", shown |-> {"num_graphs_total"}]
    ELSE IF \E n \in StatNames : Statistic(self, n).status # "ok"
    THEN [status |-> Statistic(self, "num_nodes_total").status, shown |-> {}]
    ELSE [status |-> "ok", shown |-> {"num_graphs_total"} \cup StatNames]

----------------------------------------------------------------------------
(* FakeDataset: one merged molecule handed out num_mols times. What the    *)
(* lists of a FakeDataset hold are objects of a heap, so that two places   *)
(* can hold the same object or two copies of it.                           *)

\* The lists of a merge, by the names __init__ gives them.
Kinds == {"mol_ids", "smiles", "labels", "features"}

\* An object is named by the list it was made for, the copy it is (0 for the
\* object merge made or took from a dataset) and its position in that list.
Ref(kind, copy, at) == [kind |-> kind, copy |-> copy, at |-> at]

\* FakeDataset never runs MultitaskDataset.__init__, so self.n_jobs,
\* self.backend, self.featurization_batch_size and self.progress are not
\* assigned when merge runs _get_all_lists_ids: the first dataset with a row
\* that needs smiles_to_unique_mol_ids ends it with an AttributeError (and a
\* dataset without smiles with a KeyError, as before).
FakeGetAllListsIds(dsets) ==
    LET stops == {k \in 1..Len(dsets) :
                     /\ SingleTaskLen(dsets[k].ds) > 0
                     /\ ~dsets[k].ds.smiles.some \/ ~dsets[k].ds.unique_ids.some}
    IN  IF stops = {} THEN GetAllListsIds(dsets)
        ELSE LET k == CHOOSE x \in stops : \A y \in stops : x <= y
             IN  [EmptyLists EXCEPT !.status = IF ~dsets[k].ds.smiles.some
                                               THEN "KeyError"
                                               ELSE "AttributeError"]

\* FakeDataset._get_inv_of_mol_ids: inv is range(len // num_datasets) repeated
\* num_datasets times and mol_ids the distinct values of inv, whatever the
\* ids are (positions count from 1 here, so inv holds 1..m and mol_ids 0..m-1).
FakeGetInvOfMolIds(all_mol_ids, num_datasets) ==
    LET m == Len(all_mol_ids) \div num_datasets
    IN  [mol_ids |-> [p \in 1..m |-> p - 1],
         inv     |-> [r \in 1..(m * num_datasets) |-> ((r - 1) % m) + 1]]

\* merge as FakeDataset runs it.
FakeMerge(dsets) ==
    LET all_lists == FakeGetAllListsIds(dsets)
    IN  MergeLists(all_lists, FakeGetInvOfMolIds(all_lists.mol_ids, Len(dsets)))

\* The lists merge returned as lists of objects, and the heap of those
\* objects. (A feature object is the dataset's own; nothing here reads it
\* through the dataset again.)
Allocate(m) ==
    LET refs(kind) == [p \in 1..Len(m[kind]) |-> Ref(kind, 0, p)]
        made       == UNION {{Ref(kind, 0, p) : p \in 1..Len(m[kind])} : kind \in Kinds}
    IN  [mol_ids  |-> refs("mol_ids"),
         smiles   |-> refs("smiles"),
         labels   |-> refs("labels"),
         features |-> refs("features"),
         heap     |-> [r \in made |-> m[r.kind][r.at]]]

\* deepcopy_mol with [x[0]] * num_mols in the place of the deep copies: every
\* position holds the first object itself.
DeepcopyMolShallow(num_mols, mol_ids, labels, smiles, features, heap) ==
    LET lists     == <<mol_ids, labels, smiles>> \o
                     (IF features.some THEN <<features.val>> ELSE <<>>)
        copies(x) == [i \in 1..num_mols |-> x[1]]
    IN  IF num_mols > 0 /\ \E j \in 1..Len(lists) : lists[j] = <<>>
        THEN [status |-> "IndexError", mol_ids |-> <<>>, labels |-> <<>>,
              smiles |-> <<>>, features |-> None, heap |-> heap]
        ELSE [status   |-> "ok",
              mol_ids  |-> copies(mol_ids),
              labels   |-> copies(labels),
              smiles   |-> copies(smiles),
              features |-> IF features.some THEN Some(copies(features.val)) ELSE None,
              heap     |-> heap]

\* FakeDataset.deepcopy_mol(mol_ids, labels, smiles, features=None): each list
\* becomes num_mols deep copies of its first element, new objects equal in
\* value to it; x[0] of an empty list is an IndexError when num_mols > 0.
DeepcopyMol(num_mols, mol_ids, labels, smiles, features, heap) ==
    LET lists     == <<mol_ids, labels, smiles>> \o
                     (IF features.some THEN <<features.val>> ELSE <<>>)
        copies(x) == [i \in 1..num_mols |-> [x[1] EXCEPT !.copy = i]]
        new       == {[lists[j][1] EXCEPT !.copy = i] : j \in 1..Len(lists), i \in 1..num_mols}
    IN  IF num_mols > 0 /\ \E j \in 1..Len(lists) : lists[j] = <<>>
        THEN [status |-> "IndexError", mol_ids |-> <<>>, labels |-> <<>>,
              smiles |-> <<>>, features |-> None, heap |-> heap]
        ELSE [status   |-> "ok",
              mol_ids  |-> copies(mol_ids),
              labels   |-> copies(labels),
              smiles   |-> copies(smiles),
              features |-> IF features.some THEN Some(copies(features.val)) ELSE None,
              heap     |-> [r \in (DOMAIN heap) \cup new |->
                               IF r \in new THEN heap[[r EXCEPT !.copy = 0]] ELSE heap[r]]]

\* A FakeDataset no attribute of which is assigned.
NoFakeDataset ==
    [attrs |-> {}, indexing_same_elem |-> FALSE, num_mols |-> 0, num_datasets |-> 0,
     mol_ids |-> <<>>, smiles |-> <<>>, labels |-> NpArray(<<>>), features |-> <<>>,
     labels_size |-> EmptyDict]

NoFake == [status |-> "none", obj |-> NoFakeDataset, heap |-> <<>>]

\* FakeDataset.__init__(datasets, num_mols, indexing_same_elem). The call of
\* deepcopy_mol passes (mol_ids, smiles, labels, features) to the parameters
\* (mol_ids, labels, smiles, features) and unpacks the returned
\* (mol_ids, labels, smiles, features) into mol_ids, smiles, labels, features.
\* Without features in the first row, the last statement reads self.features,
\* which no statement has assigned.
FakeInit(dsets, num_mols, indexing_same_elem) ==
    LET failed(e) == [status |-> e, obj |-> NoFakeDataset, heap |-> <<>>]
    IN  IF Len(dsets) = 0 THEN failed("StopIteration")
        ELSE
        LET probe == SingleTaskGetItem(dsets[1].ds, 0)
            four  == "features" \in DOMAIN probe.datum
            m     == FakeMerge(dsets)
            a     == Allocate(m)
            c     == DeepcopyMol(num_mols, a.mol_ids, a.smiles, a.labels,
                                 IF four THEN Some(a.features) ELSE None, a.heap)
            kept  == IF indexing_same_elem
                     THEN [mol_ids |-> a.mol_ids, smiles |-> a.smiles, labels |-> a.labels,
                           features |-> a.features, heap |-> a.heap]
                     ELSE [mol_ids |-> c.mol_ids, smiles |-> c.labels, labels |-> c.smiles,
                           features |-> c.features.val, heap |-> c.heap]
        IN  IF probe.status # "ok" THEN failed(probe.status)
            ELSE IF m.status # "ok" THEN failed(m.status)
            ELSE IF m.arity # (IF four THEN 4 ELSE 3) THEN failed("ValueError")
            ELSE IF ~indexing_same_elem /\ c.status # "ok" THEN failed(c.status)
            ELSE IF ~four THEN failed("AttributeError")
            ELSE [status |-> "ok",
                  obj    |-> [attrs |-> {"indexing_same_elem", "num_mols", "num_datasets",
                                         "about", "mol_ids", "smiles", "labels",
                                         "features", "labels_size"},
                              indexing_same_elem |-> indexing_same_elem,
                              num_mols     |-> num_mols,
                              num_datasets |-> Len(dsets),
                              mol_ids      |-> kept.mol_ids,
                              smiles       |-> kept.smiles,
                              labels       |-> NpArray(kept.labels),
                              features     |-> kept.features,
                              labels_size  |-> SetLabelSizeDict(dsets)],
                  heap   |-> kept.heap]

\* __len__ that counts the stored molecules, as MultitaskDataset.__len__ does.
FakeLenStored(self) == Len(self.labels.items)

\* FakeDataset.__len__
FakeLen(self) == self.num_mols

\* FakeDataset.__getitem__ that reads position idx whatever indexing_same_elem is.
FakeGetItemNoOverride(self, idx) ==
    IF idx >= Len(self.labels.items) \/ idx >= Len(self.features)
    THEN [status |-> "IndexError", datum |-> <<>>]
    ELSE [status |-> "ok",
          datum  |-> [labels |-> self.labels.items[idx + 1],
                      features |-> self.features[idx + 1]]]

\* FakeDataset.__getitem__ (not cached): a new dict at every call, whose two
\* values are the objects at position idx of self.labels and self.features,
\* and at position 0 when indexing_same_elem is True.
FakeGetItem(self, idx) ==
    LET at == IF self.indexing_same_elem THEN 0 ELSE idx
    IN  IF at >= Len(self.labels.items) \/ at >= Len(self.features)
        THEN [status |-> "IndexError", datum |-> <<>>]
        ELSE [status |-> "ok",
              datum  |-> [labels |-> self.labels.items[at + 1],
                          features |-> self.features[at + 1]]]

\* No record is held by a caller.
NotHeld == [idx |-> 0, datum |-> <<>>, change |-> "none"]

----------------------------------------------------------------------------
(* The single-task dataset on its own: construction from parallel          *)
(* sequences of any lengths, then reads.                                   *)

\* A smiles and a unique id for the i-th row of a dataset built on its own.
SmilesAt(i) == ((i - 1) % 3) + 1

UniqueIdAt(i) == ((i - 1) % 2) + 1

\* An optional argument: None, or a list of any length up to MaxArgLen, cut
\* from the list full.
OptionalArg(full) == {None} \cup {Some(SubSeq(full, 1, n)) : n \in 0..MaxArgLen}

NoCall == [labels |-> Some(<<>>), features |-> None, smiles |-> None,
           indices |-> None, weights |-> None, unique_ids |-> None]

NoResult == [op |-> "none"]

NotConstructed == [status |-> "none", field |-> "", got |-> 0, numel |-> 0, obj |-> NewObject]

NotBuilt == [status |-> "none", save_smiles_and_ids |-> FALSE, obj |-> NoDataset]

Init ==
    /\ datasets = <<>>
    /\ mtd = NotBuilt
    /\ cache = <<>>
    /\ ret = NoResult
    /\ call = NoCall
    /\ st = NotConstructed
    /\ sret = NoResult
    /\ fake = NoFake
    /\ held = NotHeld
    /\ fret = NoResult

\* SingleTaskDataset(labels, features, smiles, indices, weights, unique_ids)
NewSingleTask ==
    \E n \in 0..MaxArgLen :
    \E features \in OptionalArg([i \in 1..MaxArgLen |-> FeatureAt("A", i)]) :
    \E smiles \in OptionalArg([i \in 1..MaxArgLen |-> SmilesAt(i)]) :
    \E indices \in OptionalArg([i \in 1..MaxArgLen |-> IndexAt(i)]) :
    \E weights \in OptionalArg([i \in 1..MaxArgLen |-> WeightAt(i)]) :
    \E unique_ids \in OptionalArg([i \in 1..MaxArgLen |-> UniqueIdAt(i)]) :
        LET args == [labels |-> Some([i \in 1..n |-> LabelAt(i)]), features |-> features,
                     smiles |-> smiles, indices |-> indices, weights |-> weights,
                     unique_ids |-> unique_ids]
        IN  /\ st.status = "none"
            /\ call' = args
            /\ st' = SingleTaskInit(args)
            /\ sret' = NoResult
            /\ UNCHANGED <<datasets, mtd, cache, ret, fake, held, fret>>

\* len(ds)
SingleTaskLenCall ==
    /\ st.status = "ok"
    /\ sret' = [op |-> "len", value |-> SingleTaskLen(st.obj)]
    /\ UNCHANGED <<datasets, mtd, cache, ret, call, st, fake, held, fret>>

\* ds[idx], for an index in range or the first one past the end
SingleTaskGetItemCall ==
    \E idx \in 0..MaxArgLen :
        /\ st.status = "ok"
        /\ idx <= SingleTaskLen(st.obj)
        /\ sret' = [op |-> "getitem", idx |-> idx] @@ SingleTaskGetItem(st.obj, idx)
        /\ UNCHANGED <<datasets, mtd, cache, ret, call, st, fake, held, fret>>

\* state = ds.__getstate__(), as pickle calls it in the sending process
GetStateCall ==
    /\ st.status = "ok"
    /\ sret' = [op |-> "getstate", state |-> GetState(st.obj)]
    /\ UNCHANGED <<datasets, mtd, cache, ret, call, st, fake, held, fret>>

\* new.__setstate__(state), as pickle calls it in the receiving process on the
\* state the sender made
SetStateCall ==
    /\ sret.op = "getstate"
    /\ sret' = [op |-> "setstate", obj |-> SetState(sret.state)]
    /\ UNCHANGED <<datasets, mtd, cache, ret, call, st, fake, held, fret>>

NextStore ==
    NewSingleTask \/ SingleTaskLenCall \/ SingleTaskGetItemCall \/ GetStateCall
        \/ SetStateCall

SpecStore == Init /\ [][NextStore]_vars

----------------------------------------------------------------------------
(* The multitask dataset: a mapping of single-task datasets is put         *)
(* together, MultitaskDataset is constructed from it, and the object is    *)
(* read.                                                                   *)

TaskNames(dsets) == {dsets[k].task : k \in 1..Len(dsets)}

TotalRows(dsets) == SeqSum([k \in 1..Len(dsets) |-> SingleTaskLen(dsets[k].ds)])

\* datasets[task] = SingleTaskDataset(...), for a task not yet in the mapping.
\* The parallel sequences have one length here; indices and weights, which
\* MultitaskDataset never reads, are left out.
AddTask ==
    \E task \in Tasks \ TaskNames(datasets) :
    \E n \in 0..(MaxRows - TotalRows(datasets)) :
    \E has_features \in BOOLEAN :
    \E smiles \in {None} \cup {Some(s) : s \in [1..n -> Smiles]} :
    \E unique_ids \in {None} \cup {Some(u) : u \in [1..n -> UniqueIds]} :
        LET args == [labels |-> Some([i \in 1..n |-> LabelAt(i)]),
                     features |-> IF has_features
                                  THEN Some([i \in 1..n |-> FeatureAt(task, i)])
                                  ELSE None,
                     smiles |-> smiles, indices |-> None, weights |-> None,
                     unique_ids |-> unique_ids]
        IN  /\ mtd.status = "none"
            /\ datasets' = Append(datasets, [task |-> task, ds |-> SingleTaskInit(args).obj])
            /\ UNCHANGED <<mtd, cache, ret, call, st, sret, fake, held, fret>>

\* MultitaskDataset(datasets, save_smiles_and_ids=...)
Construct ==
    \E save_smiles_and_ids \in BOOLEAN :
        /\ mtd.status = "none"
        /\ mtd' = MultitaskInit(datasets, save_smiles_and_ids)
        /\ UNCHANGED <<datasets, cache, ret, call, st, sret, fake, held, fret>>

\* len(dataset)
LenCall ==
    /\ mtd.status = "ok"
    /\ ret' = [op |-> "len", value |-> MultitaskLen(mtd.obj)]
    /\ mtd' = [mtd EXCEPT !.obj = MultitaskAfterRead(@)]
    /\ UNCHANGED <<datasets, cache, call, st, sret, fake, held, fret>>

\* dataset[idx], for an index in range or the first one past the end
GetItemCall ==
    \E idx \in 0..MaxRows :
        /\ mtd.status = "ok"
        /\ idx <= MultitaskLen(mtd.obj)
        /\ LET r == MultitaskGetItem(mtd.obj, cache, idx)
           IN  /\ ret' = [op |-> "getitem", idx |-> idx, status |-> r.status,
                          datum |-> r.datum, hit |-> r.hit]
               /\ cache' = r.cache
        /\ mtd' = [mtd EXCEPT !.obj = MultitaskAfterRead(@)]
        /\ UNCHANGED <<datasets, call, st, sret, fake, held, fret>>

\* dataset.<statistic>
StatisticCall ==
    \E name \in StatNames :
        /\ mtd.status = "ok"
        /\ ret' = [op |-> "statistic", name |-> name] @@ Statistic(mtd.obj, name)
        /\ mtd' = [mtd EXCEPT !.obj = MultitaskAfterRead(@)]
    /\ UNCHANGED <<datasets, cache, call, st, sret, fake, held, fret>>

\* repr(dataset)
ReprCall ==
    /\ mtd.status = "ok"
    /\ ret' = [op |-> "repr"] @@ Repr(mtd.obj)
    /\ mtd' = [mtd EXCEPT !.obj = MultitaskAfterRead(@)]
    /\ UNCHANGED <<datasets, cache, call, st, sret, fake, held, fret>>

Next == AddTask \/ Construct \/ LenCall \/ GetItemCall

Spec == Init /\ [][Next]_vars

\* The construction alone: every mapping and every dataset built from it.
NextBuild == AddTask \/ Construct

SpecBuild == Init /\ [][NextBuild]_vars

\* The statistics and the summary read the object and assign nothing; they
\* are run on every dataset the same construction gives.
NextStats == AddTask \/ Construct \/ StatisticCall \/ ReprCall

SpecStats == Init /\ [][NextStats]_vars

----------------------------------------------------------------------------
(* The cache of __getitem__ at work: a dataset of more entities than the   *)
(* cache holds is read the way a loader reads it, front to back, with      *)
(* restarts and repeated reads, and the caller may change a record it got. *)

\* The number of rows, each an entity of its own, of the dataset that is scanned.
CacheRows == 17

\* {"A": SingleTaskDataset(...)} with CacheRows rows of distinct unique ids.
ScanDatasets ==
    LET args == [labels |-> Some([i \in 1..CacheRows |-> LabelAt(i)]),
                 features |-> Some([i \in 1..CacheRows |-> FeatureAt("A", i)]),
                 smiles |-> Some([i \in 1..CacheRows |-> SmilesAt(i)]),
                 indices |-> None, weights |-> None,
                 unique_ids |-> Some([i \in 1..CacheRows |-> i])]
    IN  <<[task |-> "A", ds |-> SingleTaskInit(args).obj]>>

InitScan ==
    /\ datasets = ScanDatasets
    /\ mtd = NotBuilt
    /\ cache = <<>>
    /\ ret = NoResult
    /\ call = NoCall
    /\ st = NotConstructed
    /\ sret = NoResult
    /\ fake = NoFake
    /\ held = NotHeld
    /\ fret = NoResult

\* The number of scans that may be broken off to start again at the first index
\* while records of the scan before are still cached out of order.
MaxRestarts == 1

\* The number of places where the cache, oldest entry first, steps down to a
\* smaller index: none while all cached records come from one scan.
Descents(c) == Cardinality({k \in 1..(Len(c) - 1) : c[k].idx > c[k + 1].idx})

\* dataset[idx] for the index just read or the one after it, the first index
\* past the end closing a scan; for the last index of the dataset, right after
\* the first index or the index past the end was read; or for the first
\* index: at the start, and later as long as fewer than MaxRestarts scans
\* before this one have left records cached out of order.
ScanGetItemCall ==
    \E idx \in 0..CacheRows :
        /\ mtd.status = "ok"
        /\ idx <= MultitaskLen(mtd.obj)
        /\ IF ret.op = "none"
           THEN idx = 0
           ELSE \/ idx \in {ret.idx, ret.idx + 1}
                \/ /\ idx = MultitaskLen(mtd.obj) - 1
                   /\ ret.idx \in {0, MultitaskLen(mtd.obj)}
                \/ idx = 0 /\ Descents(cache) < MaxRestarts
        /\ LET r == MultitaskGetItem(mtd.obj, cache, idx)
           IN  /\ ret' = [op |-> "getitem", idx |-> idx, status |-> r.status,
                          datum |-> r.datum, hit |-> r.hit]
               /\ cache' = r.cache
        /\ mtd' = [mtd EXCEPT !.obj = MultitaskAfterRead(@)]
        /\ UNCHANGED <<datasets, call, st, sret, fake, held, fret>>

\* record = dataset[idx]; del record["features"]: the dict a call returns is
\* the dict lru_cache keeps for idx, so the change is made to the cached
\* record. One cached record at a time is changed this way.
DelItemCall ==
    /\ ret.op = "getitem"
    /\ ret.status = "ok"
    /\ \A k \in 1..Len(cache) : "features" \in DOMAIN cache[k].datum
    /\ LET d == [f \in (DOMAIN ret.datum) \ {"features"} |-> ret.datum[f]]
           k == CachePos(cache, ret.idx)
       IN  /\ ret' = [ret EXCEPT !.op = "delitem", !.datum = d]
           /\ cache' = [cache EXCEPT ![k].datum = d]
    /\ UNCHANGED <<datasets, mtd, call, st, sret, fake, held, fret>>

NextScan == Construct \/ ScanGetItemCall \/ DelItemCall

SpecScan == InitScan /\ [][NextScan]_vars

----------------------------------------------------------------------------
(* The FakeDataset: construction from a mapping, reads, and a caller that  *)
(* changes a record it was given.                                          *)

\* The largest num_mols a FakeDataset is constructed with.
MaxMols == 2

\* datasets[task] = SingleTaskDataset(...), for a task not yet in the mapping
\* handed to FakeDataset: rows with or without features, smiles and unique
\* ids. Row i has the smiles SmilesAt(i); a FakeDataset reads no smiles.
AddBaseTask ==
    \E task \in Tasks \ TaskNames(datasets) :
    \E n \in 0..(MaxRows - TotalRows(datasets)) :
    \E has_features \in BOOLEAN :
    \E has_smiles \in BOOLEAN :
    \E unique_ids \in {None} \cup {Some(u) : u \in [1..n -> UniqueIds]} :
        LET args == [labels |-> Some([i \in 1..n |-> LabelAt(i)]),
                     features |-> IF has_features
                                  THEN Some([i \in 1..n |-> FeatureAt(task, i)])
                                  ELSE None,
                     smiles |-> IF has_smiles THEN Some([i \in 1..n |-> SmilesAt(i)])
                                ELSE None,
                     indices |-> None, weights |-> None,
                     unique_ids |-> unique_ids]
        IN  /\ fake.status = "none"
            /\ datasets' = Append(datasets, [task |-> task, ds |-> SingleTaskInit(args).obj])
            /\ UNCHANGED <<mtd, cache, ret, call, st, sret, fake, held, fret>>

\* FakeDataset(datasets, num_mols=..., indexing_same_elem=...)
FakeConstruct ==
    \E num_mols \in 0..MaxMols :
    \E indexing_same_elem \in BOOLEAN :
        /\ fake.status = "none"
        /\ fake' = FakeInit(datasets, num_mols, indexing_same_elem)
        /\ UNCHANGED <<datasets, mtd, cache, ret, call, st, sret, held, fret>>

\* len(fake)
FakeLenCall ==
    /\ fake.status = "ok"
    /\ fret' = [op |-> "len", value |-> FakeLen(fake.obj)]
    /\ UNCHANGED <<datasets, mtd, cache, ret, call, st, sret, fake, held>>

\* fake[idx], for an index in range or the first one past the end
FakeGetItemCall ==
    \E idx \in 0..MaxMols :
        /\ fake.status = "ok"
        /\ idx <= FakeLen(fake.obj)
        /\ fret' = [op |-> "getitem", idx |-> idx] @@ FakeGetItem(fake.obj, idx)
        /\ UNCHANGED <<datasets, mtd, cache, ret, call, st, sret, fake, held>>

\* record = fake[idx]; record["labels"]["touched"] = 0: the caller writes into
\* the label dict that the record it just got holds.
FakeSetLabelCall ==
    /\ fret.op = "getitem"
    /\ fret.status = "ok"
    /\ held.change = "none"
    /\ held' = [idx |-> fret.idx, datum |-> fret.datum, change |-> "setlabel"]
    /\ fake' = [fake EXCEPT !.heap[fret.datum["labels"]] = DictSet(@, "touched", 0)]
    /\ UNCHANGED <<datasets, mtd, cache, ret, call, st, sret, fret>>

\* record = fake[idx]; del record["features"]: the caller changes the record
\* itself.
FakeDelItemCall ==
    /\ fret.op = "getitem"
    /\ fret.status = "ok"
    /\ held.change = "none"
    /\ held' = [idx |-> fret.idx, datum |-> [f \in {"labels"} |-> fret.datum[f]],
                change |-> "delitem"]
    /\ UNCHANGED <<datasets, mtd, cache, ret, call, st, sret, fake, fret>>

NextFake ==
    AddBaseTask \/ FakeConstruct \/ FakeLenCall \/ FakeGetItemCall \/ FakeSetLabelCall
        \/ FakeDelItemCall

SpecFake == Init /\ [][NextFake]_vars

----------------------------------------------------------------------------
(* Readers of a constructed MultitaskDataset and of its datasets           *)

\* A reader calls len, an index or __getstate__ (as pickle does when the
\* dataset goes to a worker) on a dataset of the mapping, after the
\* MultitaskDataset was made of it.
StoreReadCall ==
    \E k \in 1..Len(datasets) :
    \E op \in {"len", "getitem", "getstate"} :
        LET ds == datasets[k].ds
        IN  /\ mtd.status = "ok"
            /\ ret' = [op |-> "store", call |-> op, task |-> datasets[k].task,
                       result |-> CASE op = "len"      -> SingleTaskLen(ds)
                                    [] op = "getitem"  -> SingleTaskGetItem(ds, 0)
                                    [] op = "getstate" -> GetState(ds)]
            /\ datasets' = [datasets EXCEPT ![k].ds = SingleTaskAfterRead(@)]
            /\ UNCHANGED <<mtd, cache, call, st, sret, fake, held, fret>>

\* datasets[task] = SingleTaskDataset(...) before the MultitaskDataset is made.
AddBaseTaskFirst == mtd.status = "none" /\ AddBaseTask

\* Every read of a constructed MultitaskDataset and of the datasets it was
\* made of, in any order: one reader or several, whose calls interleave.
\* (No read depends on which smiles a row has, so the mappings are those of
\* AddBaseTask, complete before the MultitaskDataset is made of them.)
NextRead ==
    AddBaseTaskFirst \/ Construct \/ LenCall \/ GetItemCall \/ StatisticCall \/ ReprCall
        \/ StoreReadCall

SpecRead == Init /\ [][NextRead]_vars

----------------------------------------------------------------------------
(* The MultitaskDataset constructed with a backend and a batch size of the *)
(* caller's choice.                                                        *)

\* MultitaskDataset(datasets, save_smiles_and_ids=..., backend=...,
\*                  featurization_batch_size=...)
ConstructWith ==
    \E save_smiles_and_ids \in BOOLEAN :
    \E backend \in Backends :
    \E featurization_batch_size \in BatchSizes :
        /\ mtd.status = "none"
        /\ mtd' = MultitaskInitWith(datasets, save_smiles_and_ids, backend,
                                    featurization_batch_size)
        /\ UNCHANGED <<datasets, cache, ret, call, st, sret, fake, held, fret>>

NextConfig == AddTask \/ ConstructWith \/ LenCall

SpecConfig == Init /\ [][NextConfig]_vars

----------------------------------------------------------------------------
(* What the claims speak of, read off the mapping itself                   *)

\* The rows of the mapping: <<k, i>> is row i of the k-th task.
Rows == {kr \in (1..Len(datasets)) \X (1..MaxRows) :
            kr[2] <= Len(datasets[kr[1]].ds.labels.val)}

\* The canonical identity of a row: the precomputed id when the dataset
\* supplies ids, else the id of the row's smiles.
RowId(kr) ==
    LET ds == datasets[kr[1]].ds
    IN  IF ds.unique_ids.some THEN ds.unique_ids.val[kr[2]]
        ELSE MolIdOf(ds.smiles.val.items[kr[2]])

AllIds == {RowId(kr) : kr \in Rows}

\* The p-th smallest identity.
IdAt(p) == CHOOSE x \in AllIds : Cardinality({y \in AllIds : y < x}) = p - 1

\* Every task with a row has smiles (the merge reads the smiles of every row).
AllHaveSmiles == \A k \in 1..Len(datasets) :
    Len(datasets[k].ds.labels.val) > 0 => datasets[k].ds.smiles.some

Built == mtd.status # "none"

BuiltOk == mtd.status = "ok"

\* The mapping with its tasks in another order.
Reordered == {[k \in 1..Len(datasets) |-> datasets[pi[k]]] :
                pi \in Permutations(1..Len(datasets))}

----------------------------------------------------------------------------
(* Claims                                                                  *)

\* C1: whenever MultitaskDataset is constructed, its length (and what len()
\* returns) is the number of distinct canonical identities over all rows of
\* all tasks of the mapping.
C1_LengthIsDistinctIds ==
    /\ BuiltOk => MultitaskLen(mtd.obj) = Cardinality(AllIds)
    /\ ret.op = "len" => ret.value = Cardinality(AllIds)

\* C1 witness: len() was called on a dataset merged from two tasks whose two
\* rows collapse onto one identity.
C1_Witness ==
    /\ ret.op = "len"
    /\ Len(datasets) = 2
    /\ Cardinality(Rows) = 2
    /\ ret.value = 1

\* C2: the sequence of identities a constructed dataset keeps is strictly
\* increasing and holds exactly the distinct identities of the rows (so it is
\* their sorted sequence), and the merge of the same tasks in any other order
\* gives the same sequence.
C2_SortedAndOrderIndependent ==
    (BuiltOk /\ mtd.obj.mol_ids.some) =>
        LET mol_ids == mtd.obj.mol_ids.val
        IN  /\ \A p \in 1..(Len(mol_ids) - 1) : mol_ids[p] < mol_ids[p + 1]
            /\ {mol_ids[p] : p \in 1..Len(mol_ids)} = AllIds
            /\ \A other \in Reordered :
                  LET m == Merge(other)
                  IN  m.status = "ok" /\ m.mol_ids = mol_ids

\* C2 witness: a dataset that keeps its identities, built from two tasks whose
\* rows come in decreasing order of identity.
C2_Witness ==
    /\ BuiltOk
    /\ mtd.obj.mol_ids.some
    /\ Len(datasets) = 2
    /\ GetAllListsIds(datasets).mol_ids = <<2, 1>>
    /\ mtd.obj.mol_ids.val = <<1, 2>>

\* C3: in a constructed dataset, the keys of the label map of each entity are
\* exactly the names of the tasks with at least one row whose identity is the
\* entity's.
C3_LabelKeysAreContributingTasks ==
    BuiltOk =>
        \A p \in 1..MultitaskLen(mtd.obj) :
            DOMAIN mtd.obj.labels.items[p] =
                {datasets[kr[1]].task : kr \in {x \in Rows : RowId(x) = IdAt(p)}}

\* C3 witness: two entities, the first labelled by task B only and the second
\* by task A only.
C3_Witness ==
    /\ BuiltOk
    /\ MultitaskLen(mtd.obj) = 2
    /\ DOMAIN mtd.obj.labels.items[1] = {"B"}
    /\ DOMAIN mtd.obj.labels.items[2] = {"A"}

\* The feature graph row kr carries, for a row of a dataset with features.
RowFeature(kr) == datasets[kr[1]].ds.features.val[kr[2]]

\* C4: for a mapping of tasks that all have rows and smiles, whether all, none
\* or only some of them supply features, construction does not fail, and the
\* feature at each position of the result is the feature of a row whose
\* identity is the identity at that position.
C4_FeaturesStayAligned ==
    (/\ Built
     /\ Len(datasets) > 0
     /\ AllHaveSmiles
     /\ \A k \in 1..Len(datasets) : Len(datasets[k].ds.labels.val) > 0) =>
        /\ BuiltOk
        /\ "features" \in mtd.obj.attrs =>
              \A p \in 1..Len(mtd.obj.features) :
                  \E kr \in Rows : /\ datasets[kr[1]].ds.features.some
                                   /\ RowId(kr) = IdAt(p)
                                   /\ mtd.obj.features[p] = RowFeature(kr)

\* C5: when no task supplies features, the dataset has no feature array and
\* dataset[i], for i in range, returns a record with the label map and
\* without a feature key.
C5_NoFeaturesNoFeatureField ==
    (BuiltOk /\ \A k \in 1..Len(datasets) : ~datasets[k].ds.features.some) =>
        /\ "features" \notin mtd.obj.attrs
        /\ (ret.op = "getitem" /\ ret.idx < MultitaskLen(mtd.obj)) =>
              /\ ret.status = "ok"
              /\ "labels" \in DOMAIN ret.datum
              /\ "features" \notin DOMAIN ret.datum

\* The tasks of the mapping that have at least one row, in their order.
NonEmptyTasks == SelectSeq(datasets, LAMBDA item : Len(item.ds.labels.val) > 0)

\* C6: a mapping with some task of at least one row constructs to the same
\* outcome, with the same identities, variants, label maps, features and label
\* sizes, as the mapping with its zero-row tasks removed.
C6_ZeroRowTasksSkipped ==
    (Built /\ Len(NonEmptyTasks) > 0) =>
        mtd = MultitaskInit(NonEmptyTasks, mtd.save_smiles_and_ids)

\* C7: constructing from an empty mapping, or from a mapping all of whose
\* tasks have zero rows, succeeds with a dataset of length 0.
C7_EmptyMappingGivesEmptyDataset ==
    (Built /\ Len(NonEmptyTasks) = 0) => (BuiltOk /\ MultitaskLen(mtd.obj) = 0)

\* C8: on a dataset of zero entities every structural statistic either
\* raises DegenerateDatasetError or returns a value; none ends in another
\* error.
C8_StatisticsOnEmptyDataset ==
    (BuiltOk /\ MultitaskLen(mtd.obj) = 0 /\ ret.op = "statistic") =>
        ret.status \in {"ok", "DegenerateDatasetError"}

\* The optional arguments of the last SingleTaskDataset call whose length
\* differs from that of labels.
Mismatching ==
    {f \in Fields \ {"labels"} : call[f].some /\ Len(call[f].val) # Len(call.labels.val)}

\* The length of an attribute of a constructed SingleTaskDataset.
AttrLen(obj, f) ==
    IF f \in {"smiles", "indices"} THEN Len(obj[f].val.items) ELSE Len(obj[f].val)

\* C9: SingleTaskDataset(...) fails exactly when some supplied sequence
\* differs in length from labels; the failure names such a sequence with the
\* two lengths and leaves no attribute assigned; when it succeeds every
\* attribute that is not None has the length of labels.
C9_LengthMismatchRejected ==
    st.status # "none" =>
        /\ Mismatching # {} =>
              /\ st.status = "AssertionError"
              /\ st.field \in Mismatching
              /\ st.got = Len(call[st.field].val)
              /\ st.numel = Len(call.labels.val)
              /\ st.got # st.numel
              /\ st.obj.attrs = {}
        /\ Mismatching = {} =>
              /\ st.status = "ok"
              /\ st.obj.attrs = Fields
              /\ \A f \in Fields :
                    st.obj[f].some => AttrLen(st.obj, f) = Len(call.labels.val)

\* C9 witness: labels of length 2 with features of length 1 is rejected,
\* naming features.
C9_Witness ==
    /\ st.status = "AssertionError"
    /\ st.field = "features"
    /\ st.got = 1
    /\ st.numel = 2

\* C10: the record ds[idx] returns has exactly the fields supplied to the
\* constructor as its keys, each with the value supplied for row idx.
C10_RecordHasSuppliedFieldsOnly ==
    (sret.op = "getitem" /\ sret.status = "ok") =>
        /\ DOMAIN sret.datum = {f \in Fields : call[f].some}
        /\ \A f \in DOMAIN sret.datum : sret.datum[f] = call[f].val[sret.idx + 1]

\* C10 witness: a dataset built from labels and smiles only returns a record
\* with those two keys.
C10_Witness ==
    /\ sret.op = "getitem"
    /\ sret.status = "ok"
    /\ {f \in Fields : call[f].some} = {"labels", "smiles"}
    /\ DOMAIN sret.datum = {"labels", "smiles"}

----------------------------------------------------------------------------
\* C11: after any sequence of reads the cache of __getitem__ holds at most
\* MaxSize (16) records, each of a different index.
C11_CacheHoldsAtMostMaxSize ==
    /\ Len(cache) <= MaxSize
    /\ \A j, k \in 1..Len(cache) : cache[j].idx = cache[k].idx => j = k

\* A read of one more index than the cache holds has pushed the first
\* index out of a full cache.
C11_Witness ==
    /\ Len(cache) = MaxSize
    /\ ret.op = "getitem"
    /\ ret.status = "ok"
    /\ ~ret.hit
    /\ ret.idx = MaxSize
    /\ CachePos(cache, 0) = 0

\* C12: whatever reads were made before and whatever was done with the
\* records they returned, dataset[i] returns a record equal to the one the
\* body of __getitem__ builds afresh from the dataset.
C12_CachedEqualsFresh ==
    (mtd.status = "ok" /\ ret.op = "getitem" /\ ret.status = "ok") =>
        ret.datum = MultitaskGetItemBody(mtd.obj, ret.idx).datum

----------------------------------------------------------------------------
\* A record with the objects it holds read from the heap.
View(datum) == [f \in DOMAIN datum |-> fake.heap[datum[f]]]

FakeOk == fake.status = "ok"

\* C13: the length of a FakeDataset is num_mols, with indexing_same_elem
\* True or False and whatever number of molecules the datasets hold.
C13_LengthIsNumMols ==
    (FakeOk /\ fret.op = "len") => fret.value = fake.obj.num_mols

\* A mapping of one molecule gave a dataset of length MaxMols.
C13_Witness ==
    /\ FakeOk
    /\ fret.op = "len"
    /\ fret.value = MaxMols
    /\ Len(datasets) = 1
    /\ SingleTaskLen(datasets[1].ds) = 1
    /\ ~fake.obj.indexing_same_elem

C15_IndependentCopies ==
    (FakeOk /\ ~fake.obj.indexing_same_elem) =>
        LET self   == fake.obj
            n      == self.num_mols
            rec(i) == FakeGetItem(self, i - 1)
            made   == FakeInit(datasets, n, FALSE)
        IN  /\ Len(self.labels.items) = n
            /\ Len(self.features) = n
            /\ \A i \in 1..n : rec(i).status = "ok"
            /\ \A i, j \in 1..n :
                  i # j => /\ rec(i).datum["labels"] # rec(j).datum["labels"]
                           /\ rec(i).datum["features"] # rec(j).datum["features"]
            /\ \A i, j \in 1..n :
                  held.change = "none" => View(rec(i).datum) = View(rec(j).datum)
            /\ \A i \in 1..n :
                  (held.change = "none" \/ i # held.idx + 1) =>
                      View(rec(i).datum) = [f \in {"labels", "features"} |->
                                               made.heap[rec(i).datum[f]]]

\* The label dict of the record of index 0 was written, and the record of
\* index 1, read afterwards, holds the label dict as it was made.
C15_Witness ==
    /\ FakeOk
    /\ ~fake.obj.indexing_same_elem
    /\ held.change = "setlabel"
    /\ held.idx = 0
    /\ "touched" \in DOMAIN View(held.datum)["labels"]
    /\ fret.op = "getitem"
    /\ fret.idx = 1
    /\ fret.status = "ok"
    /\ "touched" \notin DOMAIN View(fret.datum)["labels"]

----------------------------------------------------------------------------
\* C16: a SingleTaskDataset restored from its pickled state in another
\* process reaches its smiles through the manager of the dataset that was
\* pickled, not through a manager of its own that holds a copy of the list.
C16_RestoreReconnectsToManager ==
    (sret.op = "setstate" /\ st.obj.smiles.some) =>
        sret.obj.smiles.val.manager = st.obj.smiles.val.manager

----------------------------------------------------------------------------
\* C17: a dataset built with save_smiles_and_ids False keeps neither the ids
\* nor the smiles lists, and its label dicts and features are those of the
\* dataset built from the same mapping with save_smiles_and_ids True (compared
\* when the constructor has returned: no call changes the dataset later);
\* every record a read returns has the label dict and the feature of its
\* index and nothing else.
C17_NothingSavedButLabelsAndFeatures ==
    (BuiltOk /\ ~mtd.save_smiles_and_ids) =>
        /\ ~mtd.obj.mol_ids.some
        /\ ~mtd.obj.smiles.some
        /\ ret.op = "none" =>
               LET saved == MultitaskInit(datasets, TRUE)
               IN  /\ saved.status = "ok"
                   /\ saved.obj.mol_ids.some
                   /\ saved.obj.labels = mtd.obj.labels
                   /\ saved.obj.features = mtd.obj.features
        /\ (ret.op = "getitem" /\ ret.status = "ok") =>
               /\ "labels" \in DOMAIN ret.datum
               /\ DOMAIN ret.datum \subseteq {"labels", "features"}
               /\ ret.datum["labels"] = mtd.obj.labels.items[ret.idx + 1]
               /\ "features" \in DOMAIN ret.datum =>
                      ret.datum["features"] = mtd.obj.features[ret.idx + 1]

\* A record was read from a dataset of two molecules built without saving
\* the ids and smiles.
C17_Witness ==
    /\ BuiltOk
    /\ ~mtd.save_smiles_and_ids
    /\ MultitaskLen(mtd.obj) = 2
    /\ ret.op = "getitem"
    /\ ret.status = "ok"
    /\ ret.idx = 1
    /\ DOMAIN ret.datum = {"labels", "features"}

----------------------------------------------------------------------------
\* C18: a MultitaskDataset given a backend or a batch size that is not
\* supported is not constructed: the call ends with the unsupported-
\* configuration error for every mapping of datasets with rows and smiles,
\* those whose datasets all bring their unique ids included.
C18_UnsupportedConfigRejected ==
    (/\ Built
     /\ ~ValidConfig(mtd.backend, mtd.featurization_batch_size)
     /\ TotalRows(datasets) > 0
     /\ AllHaveSmiles) =>
        mtd.status = "UnsupportedConfigurationError"

----------------------------------------------------------------------------
\* The rows with the identity at position p, and the last of a set of rows
\* in the order the merge takes them: task by task as the mapping gives
\* them, row by row within a task.
RowsAt(p) == {kr \in Rows : RowId(kr) = IdAt(p)}

LastRow(S) == CHOOSE kr \in S : \A other \in S :
                  other[1] < kr[1] \/ (other[1] = kr[1] /\ other[2] <= kr[2])

\* C19: the label an entity has for a task is the label of the last row of
\* that task with the entity's identity, whatever rows the other tasks have;
\* a task with two rows of one identity leaves the label of the second.
C19_LastRowOfTaskWins ==
    BuiltOk =>
        \A p \in 1..MultitaskLen(mtd.obj) : \A k \in 1..Len(datasets) :
            LET mine == {kr \in RowsAt(p) : kr[1] = k}
            IN  mine # {} =>
                    /\ datasets[k].task \in DOMAIN mtd.obj.labels.items[p]
                    /\ mtd.obj.labels.items[p][datasets[k].task] =
                           datasets[k].ds.labels.val[LastRow(mine)[2]]

\* One task has two rows of one identity, and the entity has the label of
\* the second.
C19_Witness ==
    /\ BuiltOk
    /\ MultitaskLen(mtd.obj) = 1
    /\ Len(datasets) = 1
    /\ Cardinality(RowsAt(1)) = 2
    /\ mtd.obj.labels.items[1][datasets[1].task] = LabelAt(2)

\* C20: when every task supplies features, the feature of an entity is the
\* feature of the last row, in the order the merge takes the rows, among the
\* rows with the entity's identity.
C20_LastRowFeatureWins ==
    (/\ BuiltOk
     /\ \A k \in 1..Len(datasets) : datasets[k].ds.features.some) =>
        \A p \in 1..MultitaskLen(mtd.obj) :
            /\ "features" \in mtd.obj.attrs
            /\ p \in DOMAIN mtd.obj.features
            /\ mtd.obj.features[p] = RowFeature(LastRow(RowsAt(p)))

\* Two tasks have a row each of one identity, and the entity has the feature
\* of the second task's row.
C20_Witness ==
    /\ BuiltOk
    /\ Len(datasets) = 2
    /\ \A k \in 1..Len(datasets) : datasets[k].ds.features.some
    /\ Cardinality(RowsAt(1)) = 2
    /\ mtd.obj.features[1] = FeatureAt(datasets[2].task, 1)

----------------------------------------------------------------------------
\* Row kr comes before row other in the order the merge takes the rows.
Before(kr, other) == kr[1] < other[1] \/ (kr[1] = other[1] /\ kr[2] < other[2])

\* The rows of a set as a sequence in that order.
InOrder(S) ==
    [j \in 1..Cardinality(S) |->
        CHOOSE kr \in S : Cardinality({other \in S : Before(other, kr)}) = j - 1]

RowSmiles(kr) == datasets[kr[1]].ds.smiles.val.items[kr[2]]

\* C21: the smiles list of each entity holds the smiles of the rows with the
\* entity's identity and of no other row, one entry per row (equal smiles
\* are kept), in the order of the tasks in the mapping and of the rows
\* within each task.
C21_SmilesOfRowsInOrder ==
    (BuiltOk /\ mtd.obj.smiles.some) =>
        /\ Len(mtd.obj.smiles.val) = MultitaskLen(mtd.obj)
        /\ \A p \in 1..MultitaskLen(mtd.obj) :
              LET rows == InOrder(RowsAt(p))
              IN  mtd.obj.smiles.val[p] = [j \in 1..Len(rows) |-> RowSmiles(rows[j])]

\* Two tasks have a row each of one identity and of one smiles, and the
\* entity's list holds that smiles twice.
C21_Witness ==
    /\ BuiltOk
    /\ mtd.obj.smiles.some
    /\ Len(datasets) = 2
    /\ MultitaskLen(mtd.obj) = 1
    /\ Len(mtd.obj.smiles.val[1]) = 2
    /\ mtd.obj.smiles.val[1][1] = mtd.obj.smiles.val[1][2]

----------------------------------------------------------------------------
\* The indices of the cached records, least recently used first.
CachedIdx(c) == [k \in 1..Len(c) |-> c[k].idx]

\* A sequence of indices without the indices of a set.
RECURSIVE Without(_, _)
Without(s, S) ==
    IF s = <<>> THEN <<>>
    ELSE IF Head(s) \in S THEN Without(Tail(s), S)
    ELSE <<Head(s)>> \o Without(Tail(s), S)

\* C22: the cache lets records go least recently used first. A read of a
\* cached index builds no record and makes the index the most recent; a read
\* that caches a new index makes it the most recent and, only when the cache
\* is full, removes one record, the one whose last read lies furthest back;
\* the other records stay, in the order of their last reads; and no other
\* call removes a record.
C22_LeastRecentlyUsedGoes ==
    [][LET old     == CachedIdx(cache)
           new     == CachedIdx(cache')
           read    == ret'.op = "getitem"
           idx     == ret'.idx
           was     == read /\ CachePos(cache, idx) # 0
           evicted == IF read /\ ~was /\ ret'.status = "ok" /\ Len(cache) = MaxSize
                      THEN {old[1]} ELSE {}
       IN  /\ ~read => new = old
           /\ was => /\ ret'.hit
                     /\ ret'.status = "ok"
                     /\ ret'.datum = cache[CachePos(cache, idx)].datum
                     /\ new = Without(old, {idx}) \o <<idx>>
           /\ (read /\ ~was /\ ret'.status = "ok") =>
                     /\ ~ret'.hit
                     /\ new = Without(old, evicted) \o <<idx>>
           /\ (read /\ ret'.status # "ok") => new = old
      ]_vars

\* The cache was full when the first index was read again and the last index
\* came in after it: the first index is still cached, the second, read after
\* the first was first read, is not.
C22_Witness ==
    /\ Len(cache) = MaxSize
    /\ ret.op = "getitem"
    /\ ret.status = "ok"
    /\ ~ret.hit
    /\ ret.idx = MaxSize
    /\ CachePos(cache, 0) # 0
    /\ CachePos(cache, 1) = 0
    /\ CachePos(cache, 2) # 0

----------------------------------------------------------------------------
\* The first entity of the merge a MultitaskDataset makes of the mapping the
\* FakeDataset was constructed from.
OrdinaryFirst ==
    LET m == Merge(datasets)
    IN  [labels |-> m.labels[1], features |-> m.features[1]]

\* The first entity the FakeDataset holds, read from the heap.
FakeFirst ==
    [labels   |-> fake.heap[fake.obj.labels.items[1]],
     features |-> fake.heap[fake.obj.features[1]]]

\* C23: the base record of a FakeDataset is the first entity, in sorted id
\* order, of the ordinary merge of the same mapping, whatever the lengths
\* and the ids of the datasets. (Read before any caller has written into a
\* record.)
C23_BaseIsFirstOfOrdinaryMerge ==
    (FakeOk /\ held.change = "none" /\ Len(fake.obj.labels.items) > 0) =>
        /\ Merge(datasets).status = "ok"
        /\ FakeFirst = OrdinaryFirst

----------------------------------------------------------------------------
\* The tasks of the mapping that hold at least one row.
TasksWithRows == {datasets[k].task : k \in {x \in 1..Len(datasets) : SingleTaskLen(datasets[x].ds) > 0}}

\* The dataset of a task of the mapping.
DatasetOf(task) == datasets[CHOOSE k \in 1..Len(datasets) : datasets[k].task = task].ds

\* The first position of the merged dataset whose labels hold the task.
FirstWith(task) ==
    CHOOSE p \in 1..MultitaskLen(mtd.obj) :
        /\ task \in DOMAIN mtd.obj.labels.items[p]
        /\ \A q \in 1..(p - 1) : task \notin DOMAIN mtd.obj.labels.items[q]

\* C24 as stated: labels_size has one entry per task with a row, the shape of
\* the task's label in the first merged molecule that holds the task.
C24_ShapeOfFirstMergedEntity ==
    BuiltOk =>
        /\ DOMAIN mtd.obj.labels_size = TasksWithRows
        /\ \A task \in TasksWithRows :
              mtd.obj.labels_size[task] =
                  <<Len(mtd.obj.labels.items[FirstWith(task)][task])>>

\* C24: labels_size has one entry per task with a row and none for a task of
\* no row, and the entry is the shape of the label of the first row of the
\* task's own dataset, whatever the shapes of its other labels and wherever
\* the merge put that row.
C24_ShapeOfFirstRowOfTask ==
    BuiltOk =>
        /\ DOMAIN mtd.obj.labels_size = TasksWithRows
        /\ \A task \in TasksWithRows :
              mtd.obj.labels_size[task] = <<Len(DatasetOf(task).labels.val[1])>>

\* A task of two rows of different shapes, the second of which is merged
\* first, next to a task of no row: the entry is the shape of the first row.
C24_Witness ==
    /\ BuiltOk
    /\ Len(datasets) = 2
    /\ SingleTaskLen(datasets[1].ds) = 2
    /\ SingleTaskLen(datasets[2].ds) = 0
    /\ MultitaskLen(mtd.obj) = 2
    /\ mtd.obj.labels.items[1][datasets[1].task] = LabelAt(2)
    /\ mtd.obj.labels_size[datasets[1].task] = <<1>>
    /\ datasets[2].task \notin DOMAIN mtd.obj.labels_size

----------------------------------------------------------------------------
\* The datasets of the mapping that hold a row, and whether each of them
\* supplies its unique ids.
WithRows == {k \in 1..Len(datasets) : SingleTaskLen(datasets[k].ds) > 0}

AllSupplyIds == \A k \in WithRows : datasets[k].ds.unique_ids.some

----------------------------------------------------------------------------
\* C26: once the MultitaskDataset is constructed, no call of len, of an
\* index, of a statistic, of the summary or of __getstate__, in any order,
\* changes its mol_ids, smiles, labels or features, nor any attribute of a
\* dataset of the mapping, the smiles list of the dataset included.
C26_ReadsWriteNothing ==
    [][BuiltOk =>
          /\ mtd'.obj = mtd.obj
          /\ mtd'.status = mtd.status
          /\ Len(datasets') = Len(datasets)
          /\ \A k \in 1..Len(datasets) :
                /\ datasets'[k].ds = datasets[k].ds
                /\ datasets'[k].ds.smiles = datasets[k].ds.smiles
      ]_vars

\* A dataset with features and smiles was merged, read by index (the record
\* is in the cache), and then serialized.
C26_Witness ==
    /\ BuiltOk
    /\ Len(cache) > 0
    /\ ret.op = "store"
    /\ ret.call = "getstate"
    /\ ret.result.smiles.some
    /\ Len(mtd.obj.features) > 0
    /\ mtd.obj = MultitaskInit(datasets, mtd.save_smiles_and_ids).obj

----------------------------------------------------------------------------
\* C27: after a merge that succeeds, mol_ids, smiles, labels and (with
\* features) features have one length; every position has at least one
\* smiles and at least one task in its labels; the lengths of the smiles
\* lists add up to the number of rows of the mapping; and the id at the
\* position the inverse gives for a row is the identity of that row.
C27_MergedListsAligned ==
    (BuiltOk /\ mtd.obj.mol_ids.some /\ mtd.obj.smiles.some) =>
        LET n    == MultitaskLen(mtd.obj)
            rows == InOrder(Rows)
            u    == GetInvOfMolIds([r \in 1..Len(rows) |-> RowId(rows[r])])
        IN  /\ Len(mtd.obj.mol_ids.val) = n
            /\ Len(mtd.obj.smiles.val) = n
            /\ "features" \in mtd.obj.attrs => Len(mtd.obj.features) = n
            /\ \A p \in 1..n :
                  /\ mtd.obj.smiles.val[p] # <<>>
                  /\ DOMAIN mtd.obj.labels.items[p] # {}
            /\ SeqSum([p \in 1..n |-> Len(mtd.obj.smiles.val[p])]) = TotalRows(datasets)
            /\ Len(u.inv) = TotalRows(datasets)
            /\ \A r \in 1..Len(rows) :
                  /\ u.inv[r] \in 1..n
                  /\ mtd.obj.mol_ids.val[u.inv[r]] = RowId(rows[r])
                  /\ datasets[rows[r][1]].task \in DOMAIN mtd.obj.labels.items[u.inv[r]]

\* Two tasks, one of which has no row; the two rows of the other have
\* different ids, in the order opposite to the order of the rows.
C27_Witness ==
    /\ BuiltOk
    /\ mtd.obj.mol_ids.some
    /\ "features" \in mtd.obj.attrs
    /\ Len(datasets) = 2
    /\ SingleTaskLen(datasets[1].ds) = 2
    /\ SingleTaskLen(datasets[2].ds) = 0
    /\ MultitaskLen(mtd.obj) = 2
    /\ RowId(<<1, 1>>) > RowId(<<1, 2>>)
    /\ Len(mtd.obj.features) = 2

----------------------------------------------------------------------------
\* C28: an index that raises leaves the cache as it was, with no entry for
\* the failing index and every entry it held; the same index read again
\* raises again, and an index that was in the cache when the read failed is
\* a hit when read next.
C28_FailedReadLeavesCache ==
    [][(ret'.op = "getitem" /\ ret'.status # "ok") =>
          /\ cache' = cache
          /\ CachePos(cache', ret'.idx) = 0
          /\ ~ret'.hit
          /\ LET again == MultitaskGetItem(mtd'.obj, cache', ret'.idx)
             IN  /\ again.status = ret'.status
                 /\ again.cache = cache
          /\ \A k \in 1..Len(cache) :
                LET next == MultitaskGetItem(mtd'.obj, cache', cache[k].idx)
                IN  /\ next.status = "ok"
                    /\ next.hit
                    /\ next.datum = cache[k].datum
      ]_vars

\* The index one past the end was read on a full cache, which still holds the
\* sixteen indices before it.
C28_Witness ==
    /\ ret.op = "getitem"
    /\ ret.status = "IndexError"
    /\ ret.idx = MultitaskLen(mtd.obj)
    /\ Len(cache) = MaxSize
    /\ \A i \in 1..MaxSize : CachePos(cache, ret.idx - i) # 0

----------------------------------------------------------------------------
\* C29: constructing a FakeDataset from a mapping of datasets that all have
\* rows and smiles completes, with or without features and unique ids, and
\* gives a dataset whose length is num_mols.
C29_ConstructionCompletes ==
    (/\ fake.status # "none"
     /\ Len(datasets) > 0
     /\ \A k \in 1..Len(datasets) :
           /\ SingleTaskLen(datasets[k].ds) > 0
           /\ datasets[k].ds.smiles.some) =>
        /\ fake.status = "ok"
        /\ FakeLen(fake.obj) = fake.obj.num_mols

----------------------------------------------------------------------------
\* C30: the dataset that __setstate__ makes of the state __getstate__ gave
\* has the length of the original, and every index gives on it what it
\* gives on the original: the same keys, a field that was None being None
\* again, and equal values (or the same IndexError past the end).
C30_RestoredReadsAsOriginal ==
    sret.op = "setstate" =>
        /\ SingleTaskLen(sret.obj) = SingleTaskLen(st.obj)
        /\ \A idx \in 0..MaxArgLen :
              SingleTaskGetItem(sret.obj, idx) = SingleTaskGetItem(st.obj, idx)
        /\ \A f \in Fields : sret.obj[f].some <=> st.obj[f].some

\* A dataset of MaxArgLen rows with smiles and without weights was restored.
C30_Witness ==
    /\ sret.op = "setstate"
    /\ SingleTaskLen(st.obj) = MaxArgLen
    /\ st.obj.smiles.some
    /\ ~st.obj.weights.some
    /\ DOMAIN SingleTaskGetItem(sret.obj, 1).datum = DOMAIN SingleTaskGetItem(st.obj, 1).datum
    /\ "smiles" \in DOMAIN SingleTaskGetItem(sret.obj, 1).datum
    /\ "weights" \notin DOMAIN SingleTaskGetItem(sret.obj, 1).datum

====
